---- MODULE Spec2Model ----
(***************************************************************************)
(* robot_visualization: the Robot mesh cache (robot.py), the AxesVisualizer *)
(* triad (primitives.py) and calculate_fps_from_timestamps (video_utils.py).*)
(*                                                                          *)
(* Geometry is exact integer geometry: poses are 4x4 homogeneous matrices   *)
(* whose rotations are quarter turns about the coordinate axes, so matrix   *)
(* products do not commute and a transform applied twice differs from the   *)
(* transform applied once.                                                  *)
(***************************************************************************)
EXTENDS Integers, Sequences, FiniteSets, TLC

VARIABLES
    T0,           \* Robot.T0: base-frame transform
    robot,        \* Robot.robot: the loaded URDF (which links carry a visual mesh)
    mesh_actors,  \* Robot.mesh_actors: (tm, id) -> <<pv_mesh, actor>>
    id_list,      \* Robot.id_list
    plotter,      \* the plotter's actors, each with its dataset (mapper.dataset)
    applied,      \* per id: the configuration last written to its cached meshes
    explicit,     \* per id: number of direct set_robot_mesh calls by the caller
    recreated,    \* a direct set_robot_mesh call hit an id already registered
    axes,         \* AxesVisualizer: origin, scale, actors
    time_ms,      \* calculate_fps_from_timestamps: the argument
    last          \* the call that produced this state, with its result

vars == <<T0, robot, mesh_actors, id_list, plotter, applied, explicit,
          recreated, axes, time_ms, last>>

(***************************************************************************)
(* Bounds of the model.                                                     *)
(***************************************************************************)
MaxId == 1        \* instance ids are 0..MaxId
MaxIdList == 2    \* cap on len(id_list)
MaxActors == 4    \* cap on the number of robot meshes in the plotter
MaxAux == 3       \* cap on the number of other actors in the plotter
MaxJoint == 1     \* joint values are 0..MaxJoint quarter turns
MaxPath == 2      \* plot_ee_path gets at most MaxPath configurations
MaxSamples == 5   \* timestamp arrays have at most MaxSamples entries
MaxLines == 1     \* cap on AxesVisualizer.plot_path lines

Ids == 0..MaxId

(***************************************************************************)
(* numpy: 3-vectors, 3x3 and 4x4 matrices.                                  *)
(***************************************************************************)
Eye3 == << <<1, 0, 0>>, <<0, 1, 0>>, <<0, 0, 1>> >>

Eye4 == << <<1, 0, 0, 0>>, <<0, 1, 0, 0>>, <<0, 0, 1, 0>>, <<0, 0, 0, 1>> >>

Zeros3 == <<0, 0, 0>>

VecAdd(a, b) == <<a[1] + b[1], a[2] + b[2], a[3] + b[3]>>

VecSub(a, b) == <<a[1] - b[1], a[2] - b[2], a[3] - b[3]>>

Dot4(A, B, i, j) == A[i][1] * B[1][j] + A[i][2] * B[2][j] + A[i][3] * B[3][j] + A[i][4] * B[4][j]

Row4(A, B, i) == <<Dot4(A, B, i, 1), Dot4(A, B, i, 2), Dot4(A, B, i, 3), Dot4(A, B, i, 4)>>

\* A @ B
MatMul(A, B) == <<Row4(A, B, 1), Row4(A, B, 2), Row4(A, B, 3), Row4(A, B, 4)>>

\* R applied to the 3-vector v
MatVec3(R, v) == <<R[1][1] * v[1] + R[1][2] * v[2] + R[1][3] * v[3],
                   R[2][1] * v[1] + R[2][2] * v[2] + R[2][3] * v[3],
                   R[3][1] * v[1] + R[3][2] * v[2] + R[3][3] * v[3]>>

\* M[:3, :3]
RotPart(M) == << <<M[1][1], M[1][2], M[1][3]>>,
                 <<M[2][1], M[2][2], M[2][3]>>,
                 <<M[3][1], M[3][2], M[3][3]>> >>

\* M[:3, 3]
TransPart(M) == <<M[1][4], M[2][4], M[3][4]>>

\* M[:3, j]
Column(M, j) == <<M[1][j], M[2][j], M[3][j]>>

\* T = eye(4); T[:3, :3] = R; T[:3, 3] = p
Homogeneous(R, p) == << <<R[1][1], R[1][2], R[1][3], p[1]>>,
                        <<R[2][1], R[2][2], R[2][3], p[2]>>,
                        <<R[3][1], R[3][2], R[3][3], p[3]>>,
                        <<0, 0, 0, 1>> >>

Cos4(k) == CASE k % 4 = 0 -> 1 [] k % 4 = 1 -> 0 [] k % 4 = 2 -> -1 [] OTHER -> 0

Sin4(k) == CASE k % 4 = 0 -> 0 [] k % 4 = 1 -> 1 [] k % 4 = 2 -> 0 [] OTHER -> -1

\* rotations by k quarter turns about the x, y and z axis
RotX(k) == << <<1, 0, 0>>, <<0, Cos4(k), -Sin4(k)>>, <<0, Sin4(k), Cos4(k)>> >>

RotY(k) == << <<Cos4(k), 0, Sin4(k)>>, <<0, 1, 0>>, <<-Sin4(k), 0, Cos4(k)>> >>

RotZ(k) == << <<Cos4(k), -Sin4(k), 0>>, <<Sin4(k), Cos4(k), 0>>, <<0, 0, 1>> >>

(***************************************************************************)
(* pyvista: PolyData.transform(M, inplace=True) on a point array.           *)
(***************************************************************************)
TransformPoint(M, p) == VecAdd(MatVec3(RotPart(M), p), TransPart(M))

TransformPoints(M, pts) == [i \in 1..Len(pts) |-> TransformPoint(M, pts[i])]

(***************************************************************************)
(* urdfpy: the kinematic tree.  A serial chain base -> CS_5 -> CS_6; joint 1 *)
(* is revolute about z, joint 2 is fixed.  A joint configuration holds one  *)
(* value per actuated joint.  A trimesh tm is named by the index of the     *)
(* link it belongs to.                                                      *)
(***************************************************************************)
LinkNames == <<"CS_5", "CS_6">>

NumLinks == Len(LinkNames)

Meshes == 1..NumLinks

Links == {LinkNames[k] : k \in 1..NumLinks}

JointTypes == <<"revolute", "fixed">>

Actuated == {j \in 1..NumLinks : JointTypes[j] = "revolute"}

Configs == [Actuated -> 0..MaxJoint]

ZeroCfg == [j \in Actuated |-> 0]

\* tm.vertices: the mesh in its link's own frame
LocalVertices(tm) == IF tm = 1 THEN << <<0, 0, 0>>, <<1, 0, 0>> >>
                                ELSE << <<0, 0, 0>>, <<0, 2, 1>> >>

\* pv.wrap(tm).points: a new PolyData holding the local vertices
WrapPoints(tm) == LocalVertices(tm)

JointOrigin(j) == IF j = 1 THEN Homogeneous(Eye3, <<0, 0, 1>>)
                           ELSE Homogeneous(RotX(1), <<1, 0, 0>>)

JointMotion(j, q) == IF j \in Actuated THEN Homogeneous(RotZ(q[j]), Zeros3) ELSE Eye4

RECURSIVE LinkPose(_, _)
LinkPose(q, k) ==
    IF k = 0 THEN Eye4
    ELSE MatMul(LinkPose(q, k - 1), MatMul(JointOrigin(k), JointMotion(k, q)))

LinkIndex(name) == CHOOSE k \in 1..NumLinks : LinkNames[k] = name

\* URDF.link_fk(q, link_name)
LinkFk(q, name) == LinkPose(q, LinkIndex(name))

\* URDF.visual_trimesh_fk(cfg): trimesh -> pose, for the links with a visual
VisualTrimeshFk(q) == [tm \in robot |-> LinkPose(q, tm)]

(***************************************************************************)
(* Robot (robot.py).                                                        *)
(***************************************************************************)
\* kwargs R0 and p0 of the constructor
BaseFrames == { [R0 |-> Eye3, p0 |-> Zeros3], [R0 |-> RotY(1), p0 |-> <<2, 0, 1>>] }

\* the URDF files: the sets of links that carry a visual mesh
Robots == { {}, {1, 2} }

\* the fields a method writes, and the exception it raised
Self == [mesh_actors |-> mesh_actors, id_list |-> id_list, plotter |-> plotter,
         err |-> "none"]

\* an actor of the plotter with its dataset; tm and id name the call that
\* added a robot mesh (0 and -1 for other geometry)
Actor(kind, tm, id, points) == [kind |-> kind, tm |-> tm, id |-> id, points |-> points]

NoCache == [k \in {} |-> <<0, 0>>]

CacheKeyShared(tm, id) == <<tm, 0>>

\* the key (tm, id) of mesh_actors
CacheKey(tm, id) == <<tm, id>>

\* transform = eye(4) with pose's rotation and translation; mesh.transform(transform)
PosedPoints(pose, pts) ==
    TransformPoints(Homogeneous(RotPart(pose), TransPart(pose)), pts)

\* one pass of the loop of set_robot_mesh
CreateLinkMesh(s, tm, id, pose0) ==
    LET pose == MatMul(T0, pose0)
        pts == PosedPoints(pose, WrapPoints(tm))
        h == Len(s.plotter) + 1
    IN  [s EXCEPT !.plotter = Append(@, Actor("robot", tm, id, pts)),
                  !.mesh_actors = (CacheKey(tm, id) :> <<h, h>>) @@ @]

RECURSIVE SetMeshLoop(_, _, _, _)
SetMeshLoop(s, id, fk, k) ==
    IF k > NumLinks THEN s
    ELSE IF k \in DOMAIN fk
         THEN SetMeshLoop(CreateLinkMesh(s, k, id, fk[k]), id, fk, k + 1)
         ELSE SetMeshLoop(s, id, fk, k + 1)

RegisterIdDropped(ids, id) == ids

\* self.id_list.append(id)
RegisterId(ids, id) == Append(ids, id)

\* Robot.set_robot_mesh(id)
SetRobotMeshCall(s, id) ==
    SetMeshLoop([s EXCEPT !.id_list = RegisterId(@, id)], id, VisualTrimeshFk(ZeroCfg), 1)

InIdList(id, ids) == \E i \in 1..Len(ids) : ids[i] = id

\* not self.mesh_actors
CacheEmpty(s) == DOMAIN s.mesh_actors = {}

IdUnknownNever(s, id) == FALSE

IdUnknownAlways(s, id) == TRUE

\* id not in self.id_list
IdUnknown(s, id) == ~InIdList(id, s.id_list)

UpdatePointsAccumulate(cur, tm, pose) == PosedPoints(pose, cur)

\* pv_mesh.points = pv.wrap(tm).points; pv_mesh.transform(transform, inplace=True)
UpdatePoints(cur, tm, pose) == PosedPoints(pose, WrapPoints(tm))

UpdateLinkMeshRewrap(s, tm, id, pose0) ==
    LET h == Len(s.plotter) + 1
    IN  [s EXCEPT !.plotter = Append(@, Actor("robot", tm, id,
                                  PosedPoints(MatMul(T0, pose0), WrapPoints(tm)))),
                  !.mesh_actors = (CacheKey(tm, id) :> <<h, h>>) @@ @]

\* one pass of the loop of update; a missing key raises KeyError
UpdateLinkMesh(s, tm, id, pose0) ==
    LET pose == MatMul(T0, pose0)
        key == CacheKey(tm, id)
    IN  IF key \notin DOMAIN s.mesh_actors
        THEN [s EXCEPT !.err = "KeyError"]
        ELSE LET pv_mesh == s.mesh_actors[key][1]
             IN  [s EXCEPT !.plotter[pv_mesh].points = UpdatePoints(@, tm, pose)]

RECURSIVE UpdateLoop(_, _, _, _)
UpdateLoop(s, id, fk, k) ==
    IF k > NumLinks \/ s.err # "none" THEN s
    ELSE IF k \in DOMAIN fk
         THEN UpdateLoop(UpdateLinkMesh(s, k, id, fk[k]), id, fk, k + 1)
         ELSE UpdateLoop(s, id, fk, k + 1)

\* Robot.update(q, id)
UpdateCall(s, q, id) ==
    LET s1 == IF CacheEmpty(s) THEN SetRobotMeshCall(s, id) ELSE s
        s2 == IF IdUnknown(s1, id) THEN SetRobotMeshCall(s1, id) ELSE s1
    IN  UpdateLoop(s2, id, VisualTrimeshFk(q), 1)

(***************************************************************************)
(* Robot: forward kinematics and end-effector plots.                        *)
(***************************************************************************)
FkReversed(q, name) == MatMul(LinkFk(q, name), T0)

\* Robot.fk(q, ee_link_name)
Fk(q, name) == MatMul(T0, LinkFk(q, name))

\* kwargs size of plot_ee, in units of 0.005 (the default 0.01 is 2)
MarkerSize == 2

MarkerKinds == {"sphere", "cube", "cross", "arrow"}

\* a Tgp argument other than the default np.eye(4)
GripperOffset == Homogeneous(RotZ(1), <<0, 0, 1>>)

AddAll(pl, actors) == pl \o actors

\* Robot.plot_ee(q, Tgp, ee_link_name, type=type, size=size)
PlotEeCall(s, q, Tgp, name, type, size) ==
    LET ee_pose == MatMul(Fk(q, name), Tgp)
        ee_pos == TransPart(ee_pose)
        h == size \div 2
    IN  CASE type = "sphere" ->
               [s EXCEPT !.plotter = Append(@, Actor("sphere", 0, -1, <<ee_pos>>))]
          [] type = "cube" ->
               [s EXCEPT !.plotter = Append(@, Actor("cube", 0, -1, <<ee_pos>>))]
          [] type = "cross" ->
               [s EXCEPT !.plotter = AddAll(@,
                   << Actor("line", 0, -1, <<VecSub(ee_pos, <<h, 0, 0>>), VecAdd(ee_pos, <<h, 0, 0>>)>>),
                      Actor("line", 0, -1, <<VecSub(ee_pos, <<0, h, 0>>), VecAdd(ee_pos, <<0, h, 0>>)>>),
                      Actor("line", 0, -1, <<VecSub(ee_pos, <<0, 0, h>>), VecAdd(ee_pos, <<0, 0, h>>)>>) >>)]
          [] OTHER -> s

\* Robot.plot_ee_frame(q, Tgp, ee_link_name): pv.Arrow(start, direction) per axis
PlotEeFrameCall(s, q, Tgp, name) ==
    LET pose == MatMul(Fk(q, name), Tgp)
        ee_pos == TransPart(pose)
    IN  [s EXCEPT !.plotter = AddAll(@,
            << Actor("arrow", 0, -1, <<ee_pos, Column(pose, 1)>>),
               Actor("arrow", 0, -1, <<ee_pos, Column(pose, 2)>>),
               Actor("arrow", 0, -1, <<ee_pos, Column(pose, 3)>>) >>)]

\* pv.lines_from_points(points, close=False): len(points) - 1 segments; the
\* cell array of shape (len(points) - 1, 3) cannot be built for no point
LinesFromPoints(pos) ==
    IF Len(pos) = 0 THEN [err |-> "ValueError", points |-> pos, segments |-> 0]
    ELSE [err |-> "none", points |-> pos, segments |-> Len(pos) - 1]

\* Robot.plot_ee_path(path, Tgp, ee_link_name)
PlotEePathCall(s, path, Tgp, name) ==
    LET pos == [i \in 1..Len(path) |-> TransPart(MatMul(Fk(path[i], name), Tgp))]
        mesh == LinesFromPoints(pos)
    IN  IF mesh.err # "none" THEN [s EXCEPT !.err = mesh.err]
        ELSE [s EXCEPT !.plotter = Append(@, Actor("polyline", 0, -1, mesh.points))]

(***************************************************************************)
(* The state machine of one Robot.                                          *)
(***************************************************************************)
\* what the cached meshes of an id were last posed with
Unposed == [state |-> "none", q |-> ZeroCfg]

Neutral == [state |-> "neutral", q |-> ZeroCfg]

Posed(q) == [state |-> "posed", q |-> q]

Broken(q) == [state |-> "failed", q |-> q]

\* what an update overwrites: nothing, the creation pose, the same q or another
Over(a, q) == CASE a.state = "posed" /\ a.q = q -> "same"
                [] a.state = "posed" -> "other"
                [] OTHER -> a.state

\* a call and its result: created says that set_robot_mesh ran, over what an
\* update overwrote, n is the length of the path argument, added the number
\* of actors the call added, pose the matrix fk returned, actor the actor
\* plot_ee_path returned
NoCall == [op |-> "init", id |-> -1, q |-> ZeroCfg, err |-> "none", created |-> FALSE,
           over |-> "none", n |-> 0, added |-> 0, link |-> "none", pose |-> Eye4, actor |-> 0]

AxisNames == <<"x", "y", "z">>

RobotCount(pl) == Cardinality({i \in 1..Len(pl) : pl[i].kind = "robot"})

AuxCount(pl) == Len(pl) - RobotCount(pl)

\* the plotter has room for the actors of one more plot call
PlotRoom == AuxCount(plotter) + Len(AxisNames) <= MaxAux

InBounds(s) ==
    /\ Len(s.id_list) <= MaxIdList
    /\ RobotCount(s.plotter) <= MaxActors
    /\ AuxCount(s.plotter) <= MaxAux

Init ==
    /\ \E b \in BaseFrames : T0 = Homogeneous(b.R0, b.p0)
    /\ robot \in Robots
    /\ mesh_actors = NoCache
    /\ id_list = <<>>
    /\ plotter = <<>>
    /\ applied = [id \in Ids |-> Unposed]
    /\ explicit = [id \in Ids |-> 0]
    /\ recreated = FALSE
    /\ axes = <<>>
    /\ time_ms = <<>>
    /\ last = NoCall

SetRobotMesh(id) ==
    \E s \in {SetRobotMeshCall(Self, id)} :
        /\ InBounds(s)
        /\ mesh_actors' = s.mesh_actors
        /\ id_list' = s.id_list
        /\ plotter' = s.plotter
        /\ applied' = [applied EXCEPT ![id] = Neutral]
        /\ explicit' = [explicit EXCEPT ![id] = @ + 1]
        /\ recreated' = (recreated \/ InIdList(id, id_list))
        /\ last' = [NoCall EXCEPT !.op = "set_robot_mesh", !.id = id, !.err = s.err,
                                  !.created = TRUE, !.over = applied[id].state,
                                  !.added = Len(s.plotter) - Len(plotter)]
        /\ UNCHANGED <<T0, robot, axes, time_ms>>

Update(q, id) ==
    \E s \in {UpdateCall(Self, q, id)} :
        /\ InBounds(s)
        /\ mesh_actors' = s.mesh_actors
        /\ id_list' = s.id_list
        /\ plotter' = s.plotter
        /\ applied' = [applied EXCEPT ![id] = IF s.err = "none" THEN Posed(q) ELSE Broken(q)]
        /\ last' = [NoCall EXCEPT !.op = "update", !.id = id, !.q = q, !.err = s.err,
                                  !.created = Len(s.id_list) > Len(id_list),
                                  !.over = Over(applied[id], q),
                                  !.added = Len(s.plotter) - Len(plotter)]
        /\ UNCHANGED <<T0, robot, explicit, recreated, axes, time_ms>>

CallFk(q, name) ==
    /\ last' = [NoCall EXCEPT !.op = "fk", !.q = q, !.link = name, !.pose = Fk(q, name)]
    /\ UNCHANGED <<T0, robot, mesh_actors, id_list, plotter, applied, explicit,
                   recreated, axes, time_ms>>

\* a plot call: it writes only the plotter
Plotted(s, call) ==
    /\ PlotRoom
    /\ InBounds(s)
    /\ mesh_actors' = s.mesh_actors
    /\ id_list' = s.id_list
    /\ plotter' = s.plotter
    /\ last' = call
    /\ UNCHANGED <<T0, robot, applied, explicit, recreated, axes, time_ms>>

PlotEe(q, Tgp, name, type) ==
    \E s \in {PlotEeCall(Self, q, Tgp, name, type, MarkerSize)} :
        Plotted(s, [NoCall EXCEPT !.op = "plot_ee", !.added = Len(s.plotter) - Len(plotter)])

PlotEeFrame(q, Tgp, name) ==
    \E s \in {PlotEeFrameCall(Self, q, Tgp, name)} :
        Plotted(s, [NoCall EXCEPT !.op = "plot_ee_frame",
                                  !.added = Len(s.plotter) - Len(plotter)])

PlotEePath(path, Tgp, name) ==
    \E s \in {PlotEePathCall(Self, path, Tgp, name)} :
        Plotted(s, [NoCall EXCEPT !.op = "plot_ee_path", !.n = Len(path), !.err = s.err,
                                  !.added = Len(s.plotter) - Len(plotter),
                                  !.actor = IF s.err = "none" THEN Len(s.plotter) ELSE 0])

Next ==
    \/ \E id \in Ids : SetRobotMesh(id)
    \/ \E q \in Configs, id \in Ids : Update(q, id)

Spec == Init /\ [][Next]_vars

InitPlot == Init /\ robot # {}

\* the path arguments: the first configurations of a trajectory
Trajectory == [i \in 1..MaxPath |-> [j \in Actuated |-> i % (MaxJoint + 1)]]

Paths == {SubSeq(Trajectory, 1, n) : n \in 0..MaxPath}

NextPlot ==
    \/ \E q \in Configs : Update(q, 0)
    \/ \E q \in Configs, name \in Links : CallFk(q, name)
    \/ \E q \in Configs, type \in MarkerKinds : PlotEe(q, GripperOffset, "CS_6", type)
    \/ \E q \in Configs : PlotEeFrame(q, Eye4, "CS_6")
    \/ \E path \in Paths : PlotEePath(path, Eye4, "CS_6")

SpecPlot == InitPlot /\ [][NextPlot]_vars

(***************************************************************************)
(* AxesVisualizer (primitives.py).  Rotation vectors are in quarter turns   *)
(* about one coordinate axis.                                               *)
(***************************************************************************)
\* the origin arguments of the constructor (None: not given)
None == [given |-> FALSE, value |-> Zeros3]

Some(v) == [given |-> TRUE, value |-> v]

AxesPoints == {<<0, 0, 0>>, <<1, 2, 3>>}

AxesScales == {1, 2}

\* the rotation arguments: None, an ndarray of shape (3,), a 3x3 matrix
NoRotation == [kind |-> "none", rotvec |-> Zeros3, matrix |-> Eye3]

RotVec(v) == [kind |-> "rotvec", rotvec |-> v, matrix |-> Eye3]

RotMatrix(R) == [kind |-> "matrix", rotvec |-> Zeros3, matrix |-> R]

Rotations == {NoRotation, RotVec(<<0, 0, 0>>), RotVec(<<0, 0, 1>>), RotVec(<<-1, 0, 0>>),
              RotVec(<<0, 2, 0>>), RotMatrix(RotZ(1)), RotMatrix(RotX(1))}

\* scipy Rotation.from_rotvec(v): the turn by |v| about v / |v|
FromRotvec(v) ==
    CASE v[1] # 0 /\ v[2] = 0 /\ v[3] = 0 -> RotX(v[1] % 4)
      [] v[1] = 0 /\ v[2] # 0 /\ v[3] = 0 -> RotY(v[2] % 4)
      [] v[1] = 0 /\ v[2] = 0 /\ v[3] # 0 -> RotZ(v[3] % 4)
      [] OTHER -> Eye3

\* scipy Rotation.from_matrix(R), R a rotation matrix
FromMatrix(R) == R

\* the default axis directions of update
DefaultDirections(scale) == << <<scale, 0, 0>>, <<0, scale, 0>>, <<0, 0, scale>> >>

\* pv.Line(a, b): a segment of two points
Line(a, b) == Actor("line", 0, -1, <<a, b>>)

\* AxesVisualizer.__init__ and _create_axes
CreateAxes(pl, origin, scale) ==
    LET o == IF origin.given THEN origin.value ELSE Zeros3
        n == Len(pl)
    IN  [plotter |-> pl \o << Line(o, VecAdd(o, <<scale, 0, 0>>)),
                              Line(o, VecAdd(o, <<0, scale, 0>>)),
                              Line(o, VecAdd(o, <<0, 0, scale>>)) >>,
         axes |-> [origin |-> o, scale |-> scale, actors |-> <<n + 1, n + 2, n + 3>>]]

AxesDirectionsCompound(a, pl, rotation) ==
    LET cur == [i \in 1..3 |-> VecSub(pl[a.actors[i]].points[2], pl[a.actors[i]].points[1])]
        R == IF rotation.kind = "rotvec" THEN FromRotvec(rotation.rotvec)
             ELSE FromMatrix(rotation.matrix)
    IN  IF rotation.kind = "none" THEN cur ELSE [i \in 1..3 |-> MatVec3(R, cur[i])]

\* the axes_directions of update: the defaults, rotated when a rotation is given
AxesDirections(a, pl, rotation) ==
    LET dirs == DefaultDirections(a.scale)
        R == IF rotation.kind = "rotvec" THEN FromRotvec(rotation.rotvec)
             ELSE FromMatrix(rotation.matrix)
    IN  IF rotation.kind = "none" THEN dirs ELSE [i \in 1..3 |-> MatVec3(R, dirs[i])]

\* AxesVisualizer.update(position, rotation)
AxesUpdateCall(a, pl, position, rotation) ==
    LET o == IF position.given THEN position.value ELSE a.origin
        dirs == AxesDirections(a, pl, rotation)
    IN  [axes |-> [a EXCEPT !.origin = o],
         plotter |-> [i \in 1..Len(pl) |->
                        IF \E k \in 1..3 : a.actors[k] = i
                        THEN LET k == CHOOSE k \in 1..3 : a.actors[k] = i
                             IN  [pl[i] EXCEPT !.points = <<o, VecAdd(o, dirs[k])>>]
                        ELSE pl[i]]]

\* AxesVisualizer.plot_path(p1, p2)
AxesPlotPathCall(a, pl, p1, p2) == [axes |-> a, plotter |-> Append(pl, Line(p1, p2))]

\* a call on the visualizer: supplied is the position most recently given
\* (to the constructor or an update), rotation the rotation of this call,
\* over whether the triad it found was turned away from the default axes
AxesCall(op, supplied, rotation, over) ==
    [op |-> op, supplied |-> supplied, rotation |-> rotation, over |-> over]

Turned(a, pl) ==
    \E i \in 1..3 : VecSub(pl[a.actors[i]].points[2], pl[a.actors[i]].points[1])
                        # DefaultDirections(a.scale)[i]

LineCount(pl) == Cardinality({i \in 1..Len(pl) : pl[i].kind = "line"})

\* an actor the plotter held before the visualizer was built
Foreign == Actor("sphere", 0, -1, <<Zeros3>>)

InitAxes ==
    /\ T0 = Eye4
    /\ robot = {}
    /\ mesh_actors = NoCache
    /\ id_list = <<>>
    /\ applied = [id \in Ids |-> Unposed]
    /\ explicit = [id \in Ids |-> 0]
    /\ recreated = FALSE
    /\ time_ms = <<>>
    /\ \E origin \in {None} \cup {Some(p) : p \in AxesPoints}, scale \in AxesScales,
          pl \in {<<>>, <<Foreign>>} :
          \E made \in {CreateAxes(pl, origin, scale)} :
             /\ axes = made.axes
             /\ plotter = made.plotter
             /\ last = AxesCall("init", IF origin.given THEN origin.value ELSE Zeros3,
                                 NoRotation, FALSE)

AxesUpdate(position, rotation) ==
    \E s \in {AxesUpdateCall(axes, plotter, position, rotation)} :
        /\ axes' = s.axes
        /\ plotter' = s.plotter
        /\ last' = AxesCall("update",
                             IF position.given THEN position.value ELSE last.supplied,
                             rotation, Turned(axes, plotter))
        /\ UNCHANGED <<T0, robot, mesh_actors, id_list, applied, explicit, recreated, time_ms>>

AxesPlotPath(p1, p2) ==
    \E s \in {AxesPlotPathCall(axes, plotter, p1, p2)} :
        /\ LineCount(s.plotter) - Len(axes.actors) <= MaxLines
        /\ axes' = s.axes
        /\ plotter' = s.plotter
        /\ last' = [last EXCEPT !.op = "plot_path"]
        /\ UNCHANGED <<T0, robot, mesh_actors, id_list, applied, explicit, recreated, time_ms>>

NextAxes ==
    \/ \E position \in {None} \cup {Some(p) : p \in AxesPoints}, rotation \in Rotations :
           AxesUpdate(position, rotation)
    \/ \E p1 \in AxesPoints, p2 \in AxesPoints : AxesPlotPath(p1, p2)

SpecAxes == InitAxes /\ [][NextAxes]_vars

(***************************************************************************)
(* calculate_fps_from_timestamps (video_utils.py).  Floats are exact        *)
(* rationals num / den.                                                     *)
(***************************************************************************)
FallbackFps == 30

MsPerSecond == 1000

Stamps == {0, 100, 200, 300, 400}

\* a finite float
Float(num, den) == [kind |-> "float", num |-> num, den |-> den]

\* a / b for floats a = an/ad and b = bn/bd; a numpy float64 divisor of zero
\* gives inf (for a > 0), a Python float divisor raises ZeroDivisionError
FloatDiv(a, b, numpy) ==
    IF b.num = 0
    THEN [kind |-> IF numpy THEN "inf" ELSE "ZeroDivisionError", num |-> 0, den |-> 1]
    ELSE Float(a.num * b.den, a.den * b.num)

\* calculate_fps_from_timestamps(time_ms)
CalculateFps(t, numpy) ==
    IF Len(t) < 2 THEN Float(FallbackFps, 1)
    ELSE LET t_end == t[Len(t)]
         IN  FloatDiv(Float(Len(t), 1), FloatDiv(Float(t_end, 1), Float(MsPerSecond, 1), numpy), numpy)

RECURSIVE SeqsOfLen(_, _)
SeqsOfLen(S, n) ==
    IF n = 0 THEN {<<>>} ELSE {Append(p, x) : p \in SeqsOfLen(S, n - 1), x \in S}

TimeArrays == UNION {SeqsOfLen(Stamps, n) : n \in 0..MaxSamples}

InitFps ==
    /\ T0 = Eye4
    /\ robot = {}
    /\ mesh_actors = NoCache
    /\ id_list = <<>>
    /\ plotter = <<>>
    /\ applied = [id \in Ids |-> Unposed]
    /\ explicit = [id \in Ids |-> 0]
    /\ recreated = FALSE
    /\ axes = <<>>
    /\ time_ms \in TimeArrays
    /\ last = [op |-> "init", numpy |-> TRUE, fps |-> Float(0, 1)]

CallCalculateFps(numpy) ==
    /\ last' = [op |-> "calculate_fps_from_timestamps", numpy |-> numpy,
                fps |-> CalculateFps(time_ms, numpy)]
    /\ UNCHANGED <<T0, robot, mesh_actors, id_list, plotter, applied, explicit,
                   recreated, axes, time_ms>>

NextFps == \E numpy \in BOOLEAN : CallCalculateFps(numpy)

SpecFps == InitFps /\ [][NextFps]_vars

(***************************************************************************)
(* Properties.                                                              *)
(***************************************************************************)
\* the vertices of link mesh tm posed by T0 and the configuration q
Expected(q, tm) == TransformPoints(MatMul(T0, LinkPose(q, tm)), LocalVertices(tm))

\* the vertex buffer of the mesh cached under (tm, id)
CachedPoints(tm, id) == plotter[mesh_actors[<<tm, id>>][1]].points

Seen == {id_list[i] : i \in 1..Len(id_list)}

CachedIds == {k[2] : k \in DOMAIN mesh_actors}

\* the number of robot meshes added to the plotter for (tm, id)
Made(tm, id) ==
    Cardinality({i \in 1..Len(plotter) :
                   plotter[i].kind = "robot" /\ plotter[i].tm = tm /\ plotter[i].id = id})

\* C1: an update completes without a missing cache entry and leaves, for every
\* link mesh, an entry under its id that refers to a mesh made for that link
\* and id; when the update had to create the meshes (the id was not
\* registered), they hold the pose of q, not the creation pose.
C1_UpdateCreatesMissingMeshes ==
    last.op = "update" =>
        /\ last.err = "none"
        /\ \A tm \in robot :
              /\ <<tm, last.id>> \in DOMAIN mesh_actors
              /\ LET h == mesh_actors[<<tm, last.id>>][1]
                 IN  /\ h \in 1..Len(plotter)
                     /\ plotter[h].kind = "robot"
                     /\ plotter[h].tm = tm
                     /\ plotter[h].id = last.id
              /\ last.created => CachedPoints(tm, last.id) = Expected(last.q, tm)

\* an update of a new id on a robot that already holds meshes of another id,
\* with no direct set_robot_mesh call for the new id
C1_Witness ==
    /\ last.op = "update"
    /\ last.created
    /\ last.err = "none"
    /\ robot # {}
    /\ explicit[last.id] = 0
    /\ last.q # ZeroCfg
    /\ \E a \in Seen : a # last.id

\* C2: the cached vertices of every id are the local vertices posed by T0 and
\* the configuration last written to that id (the zero configuration after
\* creation), whatever was written before.
C2_VerticesDependOnlyOnLastPose ==
    \A id \in Ids, tm \in robot :
        applied[id].state \in {"neutral", "posed"} =>
            CachedPoints(tm, id) = Expected(applied[id].q, tm)

\* an update that overwrote the vertices left by an update with another,
\* non-zero configuration, under a base frame that is not the identity
C2_Witness ==
    /\ last.op = "update"
    /\ last.err = "none"
    /\ last.over = "other"
    /\ ~last.created
    /\ last.q # ZeroCfg
    /\ robot # {}
    /\ T0 # Eye4

\* C3: an update of id b (with the creation it may trigger) leaves the cache
\* entries of every other id, and the datasets they refer to, as they were.
C3_OtherInstancesUntouched ==
    [][last'.op = "update" =>
          \A k \in DOMAIN mesh_actors :
              k[2] # last'.id =>
                  /\ k \in DOMAIN mesh_actors'
                  /\ mesh_actors'[k] = mesh_actors[k]
                  /\ plotter'[mesh_actors[k][1]] = plotter[mesh_actors[k][1]]]_vars

\* update(q', b) created the meshes of b while another id a held a pose q # q'
C3_Witness ==
    /\ last.op = "update"
    /\ last.created
    /\ robot # {}
    /\ \E a \in Ids : /\ a # last.id
                      /\ applied[a].state = "posed"
                      /\ applied[a].q # last.q

\* every (link mesh, registered id) pair has exactly one mesh in the plotter
CreatedOnce ==
    /\ \A id \in Seen, tm \in robot : Made(tm, id) = 1
    /\ RobotCount(plotter) = Cardinality(robot) * Cardinality(Seen)

\* C4 as stated: when the caller called set_robot_mesh at most once per id,
\* every (link, id) mesh was created exactly once.
C4_OncePerIdAsStated == (\A id \in Ids : explicit[id] <= 1) => CreatedOnce

\* C4 amended: when set_robot_mesh was never called for an id that was
\* already registered (by an earlier set_robot_mesh or by an update), every
\* (link, id) mesh was created exactly once.
C4_CreatedOnceUnlessReRegistered == ~recreated => CreatedOnce

\* one id registered by a direct call, another by an update, and an update
\* of an id that was already registered
C4_Witness ==
    /\ ~recreated
    /\ robot # {}
    /\ Cardinality(Seen) = 2
    /\ \E a \in Seen : explicit[a] = 1
    /\ \E b \in Seen : explicit[b] = 0
    /\ last.op = "update"
    /\ ~last.created

\* C5: an update keeps every cache entry with its handles; when its id
\* already had entries it adds no actor and registers nothing, and the actor
\* of each of its entries stays the one made for that link and id.
C5_UpdateMutatesInPlace ==
    [][last'.op = "update" =>
          /\ \A k \in DOMAIN mesh_actors :
                /\ k \in DOMAIN mesh_actors'
                /\ mesh_actors'[k] = mesh_actors[k]
                /\ plotter'[mesh_actors[k][2]].kind = plotter[mesh_actors[k][2]].kind
                /\ plotter'[mesh_actors[k][2]].tm = plotter[mesh_actors[k][2]].tm
                /\ plotter'[mesh_actors[k][2]].id = plotter[mesh_actors[k][2]].id
          /\ (\E tm \in robot : <<tm, last'.id>> \in DOMAIN mesh_actors) =>
                /\ Len(plotter') = Len(plotter)
                /\ id_list' = id_list
                /\ DOMAIN mesh_actors' = DOMAIN mesh_actors]_vars

\* an update that moved the meshes of an id that already had entries
C5_Witness ==
    /\ last.op = "update"
    /\ ~last.created
    /\ last.over = "other"
    /\ last.added = 0
    /\ robot # {}

PlotOps == {"fk", "plot_ee", "plot_ee_frame", "plot_ee_path"}

\* C6: fk returns T0 @ link_fk(q, link); fk, plot_ee, plot_ee_frame and
\* plot_ee_path leave the mesh cache, the id list, T0 and every actor already
\* in the plotter as they were, and the actors they add are no robot meshes.
C6_FkAndPlotsLeaveCache ==
    /\ [](last.op = "fk" =>
             last.pose = MatMul(T0, LinkPose(last.q, LinkIndex(last.link))))
    /\ [][last'.op \in PlotOps =>
             /\ mesh_actors' = mesh_actors
             /\ id_list' = id_list
             /\ T0' = T0
             /\ robot' = robot
             /\ Len(plotter') >= Len(plotter)
             /\ \A i \in 1..Len(plotter) : plotter'[i] = plotter[i]
             /\ \A i \in (Len(plotter) + 1)..Len(plotter') : plotter'[i].kind # "robot"
             /\ last'.op = "fk" => plotter' = plotter]_vars

\* a plot call that added geometry to a plotter holding posed robot meshes
C6_Witness ==
    /\ last.op \in PlotOps
    /\ last.added > 0
    /\ DOMAIN mesh_actors # {}
    /\ applied[0].state = "posed"
    /\ applied[0].q # ZeroCfg
    /\ T0 # Eye4

\* C7 as stated: plot_ee_path with fewer than 2 configurations fails and adds
\* no mesh (any exception is taken for InsufficientPointsError).
C7_ShortPathFails ==
    (last.op = "plot_ee_path" /\ last.n < 2) => (last.err # "none" /\ last.added = 0)

\* C8 as stated: 30.0 for fewer than 2 samples, otherwise a finite value fps
\* with fps * last timestamp = 1000 * len(timestamps).
C8_FpsDefined ==
    last.op = "calculate_fps_from_timestamps" =>
        IF Len(time_ms) < 2
        THEN last.fps.kind = "float" /\ last.fps.num = 30 * last.fps.den
        ELSE /\ last.fps.kind = "float"
             /\ last.fps.den # 0
             /\ last.fps.num * time_ms[Len(time_ms)] = 1000 * Len(time_ms) * last.fps.den

\* the rotation matrix an update argument stands for
Meant(rotation) ==
    CASE rotation.kind = "rotvec" -> FromRotvec(rotation.rotvec)
      [] rotation.kind = "matrix" -> FromMatrix(rotation.matrix)
      [] OTHER -> Eye3

UnitVector(i) == [j \in 1..3 |-> IF j = i THEN 1 ELSE 0]

\* segment i runs from the supplied origin along the rotated, scaled axis i
C9_Triad ==
    /\ Len(axes.actors) = 3
    /\ \A i \in 1..3 :
          /\ axes.actors[i] \in 1..Len(plotter)
          /\ plotter[axes.actors[i]].kind = "line"
          /\ plotter[axes.actors[i]].points =
                << last.supplied,
                   VecAdd(last.supplied,
                          MatVec3(Meant(last.rotation),
                                  [j \in 1..3 |-> axes.scale * UnitVector(i)[j]])) >>

C10_RegistryMatchesCache ==
    /\ last.op = "init" => (DOMAIN mesh_actors = {} /\ id_list = <<>> /\ plotter = <<>>)
    /\ robot # {} =>
          /\ CachedIds = Seen
          /\ \A id \in Seen : {k[1] : k \in {c \in DOMAIN mesh_actors : c[2] = id}} = robot

\* two ids registered, one of them twice
C10_Witness ==
    /\ robot # {}
    /\ Cardinality(Seen) = 2
    /\ Len(id_list) > 2 \/ recreated \/ last.op = "update"

====
